---- MODULE Spec2Model ----
(***************************************************************************)
(* Model of ratt's distributed rebuild.                                    *)
(*                                                                         *)
(* The build worker (cmd/ratt-builder/builder.go): the lease table guarded *)
(* by s.mu, the Acquire/Release semaphore RPCs and the WriteFile/Start/    *)
(* Wait/Tar build RPCs, each handler running as its own goroutine and      *)
(* interleaving with the others at every lock and I/O step.  SpecSem runs  *)
(* the semaphore RPCs with any number of calls in flight; SpecRun and      *)
(* SpecDownload run them together with the build RPCs for callers that     *)
(* send one request at a time; Spec is the whole worker.                   *)
(*                                                                         *)
(* The balancer (cmd/ratt-balancer-roundrobin/roundrobin.go): SpecResolver *)
(* is its resolver polling the socket directory, SpecBalancer the resolver *)
(* together with the forwarded Acquire, Release and Get.                   *)
(*                                                                         *)
(* The orchestrator (main and sbuild.build of ratt): SpecOrch is its token *)
(* pool, its retry ticker and one task per package.                        *)
(***************************************************************************)
EXTENDS Integers, Sequences, FiniteSets, TLC

\* ------------------------------------------------------------------ bounds
MaxCalls == 2        \* RPC handlers that can be in flight at once
MaxIds == 2          \* names ioutil.TempDir can still hand out
MaxCapacity == 2     \* largest -concurrent_builds value explored
MaxProcs == 2        \* sbuild subprocesses that can be spawned in a run
MaxFileLen == 1      \* bytes a file can hold
MaxWritten == 2      \* entries one writtenFiles slice can hold
MaxStreamLen == 2    \* bytes one upload stream of several chunks can carry
MaxLeases == 1       \* leases granted in a run that exercises the build RPCs

Calls == 1..MaxCalls
NoCall == 0
IdNames == <<"b1", "b2", "b3", "b4">>
BuildIds == {IdNames[i] : i \in 1..MaxIds}
Pids == 1..MaxProcs
NoPid == 0

\* ------------------------------------------------------------------ state
VARIABLES
    concurrentBuilds, \* -concurrent_builds flag
    mu,               \* s.mu: the call holding it, or NoCall
    builds,           \* s.builds: the ids that are keys of the map
    chanClosed,       \* ids whose done channel has been closed
    writtenFiles,     \* s.writtenFiles: id -> sequence of filenames
    cmds,             \* s.cmds: id -> pid of the exec.Cmd, or NoPid
    procs,            \* pid -> state of the sbuild subprocess
    dirs,             \* directories of the filesystem (absolute paths)
    files,            \* regular files of the filesystem: path -> bytes
    pc,               \* call -> position of its handler
    req,              \* call -> request message being handled
    loc,              \* call -> handler-local variables
    ctxDone,          \* call -> the caller cancelled / disconnected
    sent,             \* call -> messages sent on the call's stream
    result,           \* reply of the handler that returned in the last step
    acquiredLog,      \* ids logged as "semaphore acquired"
    releasedLog       \* ids logged as "semaphore released"

tableVars == <<builds, chanClosed, writtenFiles, cmds>>
fsVars == <<dirs, files>>
callVars == <<pc, req, loc, ctxDone, sent, result>>
logVars == <<acquiredLog, releasedLog>>
\* State of the balancer (cmd/ratt-balancer-roundrobin/roundrobin.go), of its
\* resolver and of the workers it forwards to.
VARIABLES
    addrs,            \* r.addrs: the static backends from -builder_ports
    socketDir,        \* r.socketDir (-socket_dir), "" when unset
    lbBuilds,         \* balancer's s.builds (-concurrent_builds)
    dirEntries,       \* watched directory: entry name -> kind of the entry
    added,            \* r.added
    sockets,          \* r.sockets: names of the sockets last seen
    watching,         \* the balancer still calls the resolver's Next
    updates,          \* batch Next returned in the last step, or NoUpdates
    rrAddrs,          \* address list of the round-robin balancer
    rrNext,           \* its cursor
    forwarded,        \* backends picked since the backend set last changed
    leases,           \* backend -> ids in that worker's lease table
    lbPc,             \* call -> position of the balancer's handler
    lbLoc,            \* call -> connection and message the handler holds
    relayed,          \* call -> grants sent on to the caller
    lbResult          \* reply of the balancer handler that just returned

resolverVars == <<addrs, socketDir, dirEntries, added, sockets, watching, updates,
                  rrAddrs>>
lbVars == <<resolverVars, lbBuilds, rrNext, forwarded, leases, lbPc, lbLoc,
            relayed, lbResult>>

\* State of the orchestrator (main of ratt): the token pool, the retry ticker,
\* the progress reporter, one task per package to rebuild and the worker's
\* leases as far as the run depends on them.
VARIABLES
    poolSize,         \* cap(concurrent): config.GetConcurrentBuilds()
    concurrent,       \* tokens in the channel
    retry,            \* ticks waiting in the time.Tick channel
    recheck,          \* -recheck flag
    task,             \* task -> position and job of its goroutine
    outcome,          \* task -> what its last build() call returned
    egErr,            \* first error a task returned to the errgroup
    states,           \* birdseye.states
    foreign,          \* leases other callers hold on the worker
    faults,           \* failures of the transport or the hosts so far
    report,           \* lines and counts of "Build results:"
    exit              \* how the process ended, "running" until then

orchVars == <<poolSize, concurrent, retry, recheck, task, outcome, egErr, states,
              foreign, faults, report, exit>>

peerVars == <<lbVars, orchVars>>
workerVars == <<concurrentBuilds, mu, tableVars, procs, fsVars, callVars, logVars>>
vars == <<workerVars, peerVars>>

\* ------------------------------------------------------------ vocabulary
\* Lease ids a caller can put in a request: the ids TempDir can produce and
\* one string that no TempDir call ever returns.
RequestIds == BuildIds \cup {"nope"}

HostPort == "localhost:12311"      \* address put in the AcquireReply
ListenAddr == "localhost:12311"    \* address the worker listens on

\* Paths are sequences of components; an absolute clean path is the sequence
\* of its directory names, <<>> being the root.
CacheDir == <<"cache">>            \* s.dir (-cache_dir), absolute

NoReq == [id |-> "", filename |-> <<>>, data |-> <<>>, package |-> <<>>,
          dist |-> "", extra |-> <<>>]
NoLoc == [id |-> "", dir |-> <<>>, f |-> <<>>, off |-> 0, pid |-> NoPid,
          args |-> <<>>]
NoResult == [call |-> NoCall, op |-> "", err |-> "", id |-> "", status |-> 0,
             tree |-> {}]
NoProc == [state |-> "none", status |-> 0, waited |-> FALSE, dir |-> <<>>]

Res(op, err, id) == [NoResult EXCEPT !.op = op, !.err = err, !.id = id]

\* ------------------------------------------------------------ s.mu
TryLockMutant(c) == mu' = mu
TryLock(c) == mu = NoCall /\ mu' = c
UnlockMutant(c) == mu' = mu
Unlock(c) == mu' = NoCall

\* A handler returns res: its locals, its stream and its context are gone and
\* the call slot is idle again.  result holds the reply for the one state that
\* follows the return; every other step leaves it empty.
Return(c, res) ==
    /\ pc' = [pc EXCEPT ![c] = "idle"]
    /\ result' = [res EXCEPT !.call = c]
    /\ req' = [req EXCEPT ![c] = NoReq]
    /\ loc' = [loc EXCEPT ![c] = NoLoc]
    /\ ctxDone' = [ctxDone EXCEPT ![c] = FALSE]
    /\ sent' = [sent EXCEPT ![c] = <<>>]

\* A handler moves on to position p with locals l.
Goto(c, p, l) ==
    /\ pc' = [pc EXCEPT ![c] = p]
    /\ loc' = [loc EXCEPT ![c] = l]
    /\ result' = NoResult
    /\ UNCHANGED <<req, ctxDone, sent>>

\* ------------------------------------------------- balancer vocabulary
MaxForwards == 4     \* forwarded Acquire requests counted per backend set
MaxTasks == 2        \* packages to rebuild (one orchestrator task each)
MaxFaults == 1       \* failures of the transport or the hosts in a run
MaxExtra == 1        \* extra packages injected into every build

SocketNames == {"x", "y"}          \* entry names the watched directory can hold
EntryKinds == {"none", "socket", "file"}

\* roundrobin.go:165-175: -builder_ports split at commas, blanks skipped,
\* each port turned into "localhost:<port>"
BuilderPorts == {<<>>, <<"12311">>, <<"">>, <<"12312", "", "12311">>,
                 <<"12312", "12312">>}
PortAddr(port) ==
    CASE port = "12311" -> "localhost:12311"
      [] port = "12312" -> "localhost:12312"
RECURSIVE ParsePorts(_)
ParsePorts(parts) ==
    IF parts = <<>> THEN <<>>
    ELSE IF Head(parts) = "" THEN ParsePorts(Tail(parts))
    ELSE <<PortAddr(Head(parts))>> \o ParsePorts(Tail(parts))

\* roundrobin.go:128: filepath.Join(r.socketDir, s)
SocketDirs == {"", "/s"}
SockAddr(name) ==
    CASE name = "x" -> "/s/x"
      [] name = "y" -> "/s/y"

\* The workers a connection can end at, named by the address the balancer
\* dials.
Backends == {"localhost:12311", "localhost:12312", "/s/x", "/s/y"}
NoBackend == ""

\* roundrobin.go:54-58: remote.Addr.String() of the connection the balancer
\* dialled to address a (a TCP name resolves to the loopback address, a
\* socket path is its own peer name)
PeerAddr(a) ==
    CASE a = "localhost:12311" -> "127.0.0.1:12311"
      [] a = "localhost:12312" -> "127.0.0.1:12312"
      [] OTHER -> a

\* part_004:98: the worker a caller reaches when it dials hostPort
Listener(hostPort) ==
    CASE hostPort \in {"localhost:12311", "127.0.0.1:12311"} -> "localhost:12311"
      [] hostPort \in {"localhost:12312", "127.0.0.1:12312"} -> "localhost:12312"
      [] hostPort \in {"/s/x", "/s/y"} -> hostPort
      [] OTHER -> NoBackend

NoUpdates == [returned |-> FALSE, batch |-> <<>>]
NoMsg == [kind |-> "none", id |-> "", hostPort |-> "", err |-> ""]
NoConn == [backend |-> NoBackend, id |-> "", in |-> NoMsg]
NoLbResult == [call |-> NoCall, op |-> "", err |-> "", id |-> "", builds |-> 0]
LbRes(op, err) == [NoLbResult EXCEPT !.op = op, !.err = err]

LbIdle ==
    /\ addrs = <<>>
    /\ socketDir = ""
    /\ lbBuilds = 0
    /\ dirEntries = [n \in SocketNames |-> "none"]
    /\ added = FALSE
    /\ sockets = {}
    /\ watching = FALSE
    /\ updates = NoUpdates
    /\ rrAddrs = <<>>
    /\ rrNext = 0
    /\ forwarded = <<>>
    /\ leases = [b \in Backends |-> {}]
    /\ lbPc = [c \in Calls |-> "idle"]
    /\ lbLoc = [c \in Calls |-> NoConn]
    /\ relayed = [c \in Calls |-> <<>>]
    /\ lbResult = NoLbResult

\* ---------------------------------------------- orchestrator vocabulary
Tasks == 1..MaxTasks

\* What build() returned: for a failure the step that failed, its cause,
\* whether the error came wrapped in a semaphoreAcquireError and its gRPC
\* code; for a build that ran, the exit status.
NoOutcome == [stage |-> "", cause |-> "", wrapped |-> FALSE, code |-> "",
              status |-> 0]
Failure(stage, cause, wrapped, code) ==
    [NoOutcome EXCEPT !.stage = stage, !.cause = cause, !.wrapped = wrapped,
                      !.code = code]

\* A task: where its goroutine is, whether it put a token in concurrent that
\* it has not taken out again, job.recheck, len(job.build.extraDebs), the err
\* of job.result and of job.recheckResult, its entry in buildresults, what
\* the worker holds on its behalf (leases not released, sbuild subprocesses
\* still running), and of the attempt it is in or made last the steps that
\* are done and the files it uploaded.
NewTask == [pc |-> "init", token |-> FALSE, recheck |-> FALSE, extraDebs |-> 0,
            first |-> "", second |-> "", category |-> "", leases |-> 0,
            sbuilds |-> 0, trace |-> <<>>, uploads |-> 0]
Categories == {"passing", "alreadyBroken", "failing"}
NoReport == [lines |-> <<>>, counts |-> [c \in Categories |-> 0]]

OrchIdle ==
    /\ poolSize = 0
    /\ concurrent = 0
    /\ retry = 0
    /\ recheck = FALSE
    /\ task = [t \in Tasks |-> NewTask]
    /\ outcome = [t \in Tasks |-> NoOutcome]
    /\ egErr = ""
    /\ states = <<>>
    /\ foreign = 0
    /\ faults = 0
    /\ report = NoReport
    /\ exit = "running"

\* ------------------------------------------------------------ Init
WorkerInit ==
    /\ concurrentBuilds \in 1..MaxCapacity
    /\ mu = NoCall
    /\ builds = {}
    /\ chanClosed = {}
    /\ writtenFiles = [i \in BuildIds |-> <<>>]
    /\ cmds = [i \in BuildIds |-> NoPid]
    /\ procs = [p \in Pids |-> NoProc]
    /\ dirs = {<<>>}
    /\ files = <<>>
    /\ pc = [c \in Calls |-> "idle"]
    /\ req = [c \in Calls |-> NoReq]
    /\ loc = [c \in Calls |-> NoLoc]
    /\ ctxDone = [c \in Calls |-> FALSE]
    /\ sent = [c \in Calls |-> <<>>]
    /\ result = NoResult
    /\ acquiredLog = {}
    /\ releasedLog = {}

Init == WorkerInit /\ LbIdle /\ OrchIdle

\* A caller issues an RPC on an idle call slot.
Begin(c, first, r) ==
    /\ pc[c] = "idle"
    /\ pc' = [pc EXCEPT ![c] = first]
    /\ req' = [req EXCEPT ![c] = r]
    /\ result' = NoResult
    /\ UNCHANGED <<peerVars, concurrentBuilds, mu, tableVars, procs, fsVars, logVars,
                   loc, ctxDone, sent>>

\* A handler takes s.mu and moves to the position inside the critical section.
LockStep(c, from, to) ==
    /\ pc[c] = from
    /\ TryLock(c)
    /\ pc' = [pc EXCEPT ![c] = to]
    /\ result' = NoResult
    /\ UNCHANGED <<peerVars, concurrentBuilds, tableVars, procs, fsVars, logVars,
                   req, loc, ctxDone, sent>>

\* ------------------------------------------------------------ Acquire
AtCapacityMutant == Cardinality(builds) > concurrentBuilds
AtCapacity == Cardinality(builds) >= concurrentBuilds

\* Names ioutil.TempDir can still create under s.dir.
FreshIdsMutant == BuildIds
FreshIds == {i \in BuildIds : /\ CacheDir \o <<i>> \notin dirs
                              /\ CacheDir \o <<i>> \notin DOMAIN files}

CallAcquire(c) == Begin(c, "acq_lock", NoReq)

AcqLock(c) == LockStep(c, "acq_lock", "acq_check")

\* builder.go:68-70
AcqCheck(c) ==
    /\ pc[c] = "acq_check"
    /\ IF AtCapacity
       THEN /\ Return(c, Res("Acquire", "overloaded", ""))
            /\ Unlock(c)
       ELSE /\ Goto(c, "acq_create", loc[c])
            /\ UNCHANGED mu
    /\ UNCHANGED <<peerVars, concurrentBuilds, tableVars, procs, fsVars, logVars>>

\* builder.go:72-85: MkdirAll, TempDir, table insert, then the deferred Unlock
AcqCreate(c) ==
    /\ pc[c] = "acq_create"
    /\ Unlock(c)
    /\ \/ \* os.MkdirAll fails
          /\ Return(c, Res("Acquire", "mkdir", ""))
          /\ UNCHANGED <<builds, dirs, acquiredLog>>
       \/ \* ioutil.TempDir fails
          /\ dirs' = dirs \cup {CacheDir}
          /\ Return(c, Res("Acquire", "tempdir", ""))
          /\ UNCHANGED <<builds, acquiredLog>>
       \/ \E i \in FreshIds :
          /\ dirs' = dirs \cup {CacheDir, CacheDir \o <<i>>}
          /\ builds' = builds \cup {i}
          /\ acquiredLog' = acquiredLog \cup {i}
          /\ Goto(c, "acq_send", [loc[c] EXCEPT !.id = i])
    /\ UNCHANGED <<peerVars, concurrentBuilds, chanClosed, writtenFiles, cmds, procs, files,
                   releasedLog>>

\* builder.go:94-99
AcqSend(c) ==
    /\ pc[c] = "acq_send"
    /\ IF ctxDone[c]
       THEN Return(c, Res("Acquire", "send", loc[c].id))
       ELSE /\ sent' = [sent EXCEPT ![c] =
                          Append(@, [BuildId |-> loc[c].id, HostPort |-> HostPort])]
            /\ pc' = [pc EXCEPT ![c] = "acq_wait"]
            /\ result' = NoResult
            /\ UNCHANGED <<req, loc, ctxDone>>
    /\ UNCHANGED <<peerVars, concurrentBuilds, mu, tableVars, procs, fsVars, logVars>>

\* builder.go:101-106: the select on done and on the stream's context
DoneReady(c) == loc[c].id \in chanClosed \/ ctxDone[c]

\* builder.go:103-105: the table after the branch on the stream's context,
\* which returns and does nothing else
AfterDisconnectMutant(c) == builds \ {loc[c].id}
AfterDisconnect(c) == builds

AcqWait(c) ==
    /\ pc[c] = "acq_wait"
    /\ DoneReady(c)
    /\ Return(c, Res("Acquire", "ok", loc[c].id))
    /\ builds' = IF loc[c].id \in chanClosed THEN builds ELSE AfterDisconnect(c)
    /\ UNCHANGED <<peerVars, concurrentBuilds, mu, chanClosed, writtenFiles, cmds, procs,
                   fsVars, logVars>>

\* ------------------------------------------------------------ Release
CallRelease(c) ==
    \E i \in RequestIds : Begin(c, "rel_lock", [NoReq EXCEPT !.id = i])

RelLock(c) == LockStep(c, "rel_lock", "rel_body")

\* builder.go:113: the lookup of the id in s.builds
ValidBuildIdMutant(i) == i \in acquiredLog
ValidBuildId(i) == i \in builds

\* builder.go:116: the channels Release closes
ClosedByMutant(i) == builds
ClosedBy(i) == {i}

\* builder.go:117: the table entries Release deletes
DeletedByMutant(i) == {}
DeletedBy(i) == {i}

\* builder.go:112-119
RelBody(c) ==
    /\ pc[c] = "rel_body"
    /\ Unlock(c)
    /\ IF ~ValidBuildId(req[c].id)
       THEN /\ Return(c, Res("Release", "invalid build id", req[c].id))
            /\ UNCHANGED <<builds, chanClosed, releasedLog>>
       ELSE /\ chanClosed' = chanClosed \cup ClosedBy(req[c].id)
            /\ builds' = builds \ DeletedBy(req[c].id)
            /\ releasedLog' = releasedLog \cup {req[c].id}
            /\ Return(c, Res("Release", "ok", req[c].id))
    /\ UNCHANGED <<peerVars, concurrentBuilds, writtenFiles, cmds, procs, fsVars,
                   acquiredLog>>

\* ------------------------------------------------------------ disconnect
\* The positions at which a handler looks at its stream's context: the Send
\* and the select of Acquire, the Recv of WriteFile, the tar command and the
\* Send of Tar.  A disconnect that happens earlier is seen there and only
\* there, so it is taken to happen when the handler has reached the position.
StreamPcs == {"acq_send", "acq_wait", "wf_recv", "tar_run"}

\* The caller of a streaming RPC disconnects or cancels it.
Cancel(c) ==
    /\ pc[c] \in StreamPcs
    /\ ~ctxDone[c]
    /\ ctxDone' = [ctxDone EXCEPT ![c] = TRUE]
    /\ result' = NoResult
    /\ UNCHANGED <<peerVars, concurrentBuilds, mu, tableVars, procs, fsVars, logVars,
                   pc, req, loc, sent>>

\* ------------------------------------------------------------ semaphore spec
\* The steps of the Acquire and Release handlers once they are called.
SemBody(c) ==
    \/ AcqLock(c) \/ AcqCheck(c) \/ AcqCreate(c) \/ AcqSend(c) \/ AcqWait(c)
    \/ Cancel(c) \/ RelLock(c) \/ RelBody(c)

SemNext == \E c \in Calls : CallAcquire(c) \/ CallRelease(c) \/ SemBody(c)

SpecSem == Init /\ [][SemNext]_vars

\* ------------------------------------------------------------ paths
\* A file name as it travels in a request is the sequence of the pieces
\* between its slashes: "../a" is <<"..", "a">>, "/a" is <<"", "a">>, the
\* empty name is <<"">>.  Two names are the same string exactly when their
\* sequences are equal.

RECURSIVE CleanFrom(_, _)
\* filepath.Clean of a rooted path: drops empty and "." elements, lets ".."
\* remove the element before it, and drops ".." at the root.
CleanFrom(stack, rest) ==
    IF rest = <<>> THEN stack
    ELSE LET h == Head(rest) IN
         IF h = "" \/ h = "." THEN CleanFrom(stack, Tail(rest))
         ELSE IF h = ".."
              THEN CleanFrom(IF stack = <<>> THEN <<>>
                             ELSE SubSeq(stack, 1, Len(stack) - 1), Tail(rest))
              ELSE CleanFrom(Append(stack, h), Tail(rest))

\* filepath.Join(base, name) for an absolute clean base
Join(base, name) == CleanFrom(<<>>, base \o name)

\* filepath.Abs of an absolute path is its Clean
Abs(path) == CleanFrom(<<>>, path)

\* Length of the longest common prefix of two paths
CommonLen(a, b) ==
    LET n == IF Len(a) < Len(b) THEN Len(a) ELSE Len(b)
        same == {k \in 0..n : SubSeq(a, 1, k) = SubSeq(b, 1, k)}
    IN CHOOSE k \in same : \A j \in same : j <= k

\* filepath.Rel(base, targ) for absolute clean paths, as a name
Rel(base, targ) ==
    LET k == CommonLen(base, targ)
        ups == [j \in 1..(Len(base) - k) |-> ".."]
        r == ups \o SubSeq(targ, k + 1, Len(targ))
    IN IF r = <<>> THEN <<".">> ELSE r

\* builder.go:30-43; TRUE when relativeTo returns nil
relativeTo(base, dir) == Rel(base, Abs(Join(base, dir))) = dir

Parent(path) == SubSeq(path, 1, Len(path) - 1)

\* os.Create(path) succeeds: the parent is a directory, path is not one
CanCreate(path) ==
    /\ path # <<>>
    /\ path \notin dirs
    /\ Parent(path) \in dirs
    /\ Parent(path) \notin DOMAIN files

\* the files after os.Create(path): path exists and is empty
Created(fs, path) ==
    [q \in DOMAIN fs \cup {path} |-> IF q = path THEN <<>> ELSE fs[q]]

\* the bytes of a file after Write(data) at offset off
WriteAt(content, off, data) ==
    LET end == off + Len(data)
        n == IF Len(content) > end THEN Len(content) ELSE end
    IN [k \in 1..n |-> IF k > off /\ k <= end THEN data[k - off]
                       ELSE IF k <= Len(content) THEN content[k] ELSE 0]

\* builder.go:56-63: buildDir's lookup and the directory it returns
BuildDirOk(i) == i \in builds
BuildDirOf(i) == CacheDir \o <<i>>

\* ------------------------------------------------------------ inputs
Chunks == {<<1>>}
UploadNames ==
    {<<"a">>, <<"b">>, <<"..", "a">>, <<"", "a">>, <<"a", "..", "a">>, <<".">>}
Packages == {<<>>, <<" ">>, <<"p">>}
Dists == {""}
ExtraLists == {<<>>, << <<"", "a">> >>, << <<"..", "a">> >>}
ArtifactNames == {"a", "out"}
ExitStatuses == {0, 1}

\* ------------------------------------------------------------ WriteFile
NoFile == <<>>        \* var f *os.File = nil

CallWriteFile(c) == Begin(c, "wf_recv", NoReq)

\* uploads on the way that can still append to writtenFiles[i]
Uploading(i) ==
    {d \in Calls : /\ pc[d] \in {"wf_lock", "wf_dir", "wf_create", "wf_reclock",
                                  "wf_record"}
                   /\ req[d].id = i}

\* writtenFiles[i] has room for the uploads on the way and one more
HasRoom(i) ==
    i \in BuildIds
        => Len(writtenFiles[i]) + Cardinality(Uploading(i)) < MaxWritten

\* builder.go:125-135, 153: stream.Recv and what follows it directly, for
\* chunks with a name from names and data from chunks that keep the file
\* within limit bytes.  Of a
\* chunk that is not the first of its stream only the data are read.
WfRecvWithin(c, names, chunks, limit) ==
    /\ pc[c] = "wf_recv"
    /\ \/ \* Recv fails: the caller is gone
          /\ ctxDone[c]
          /\ Return(c, Res("WriteFile", "recv", req[c].id))
       \/ \* io.EOF: Close and SendAndClose
          /\ ~ctxDone[c]
          /\ Return(c, Res("WriteFile",
                           IF loc[c].f = NoFile THEN "close" ELSE "ok", req[c].id))
       \/ \* a chunk
          /\ ~ctxDone[c]
          /\ \E i \in RequestIds, fn \in names, data \in chunks :
               /\ loc[c].off + Len(data) <= limit
               /\ IF loc[c].f = NoFile
                  THEN /\ HasRoom(i)
                       /\ req' = [req EXCEPT ![c] = [NoReq EXCEPT !.id = i,
                                     !.filename = fn, !.data = data]]
                       /\ pc' = [pc EXCEPT ![c] = "wf_lock"]
                  ELSE /\ req' = [req EXCEPT ![c].data = data]
                       /\ pc' = [pc EXCEPT ![c] = "wf_write"]
          /\ result' = NoResult
          /\ UNCHANGED <<loc, ctxDone, sent>>
    /\ UNCHANGED <<peerVars, concurrentBuilds, mu, tableVars, procs, fsVars, logVars>>

WfRecv(c) == WfRecvWithin(c, UploadNames, Chunks, MaxFileLen)

WfLock(c) == LockStep(c, "wf_lock", "wf_dir")

\* builder.go:136-139
WfBuildDir(c) ==
    /\ pc[c] = "wf_dir"
    /\ Unlock(c)
    /\ IF ~BuildDirOk(req[c].id)
       THEN Return(c, Res("WriteFile", "invalid build id", req[c].id))
       ELSE Goto(c, "wf_create", [loc[c] EXCEPT !.dir = BuildDirOf(req[c].id)])
    /\ UNCHANGED <<peerVars, concurrentBuilds, tableVars, procs, fsVars, logVars>>

\* builder.go:140-147
WfCreate(c) ==
    /\ pc[c] = "wf_create"
    /\ LET path == Join(loc[c].dir, req[c].filename) IN
       IF ~relativeTo(loc[c].dir, req[c].filename)
       THEN /\ Return(c, Res("WriteFile", "outside", req[c].id))
            /\ UNCHANGED files
       ELSE IF ~CanCreate(path)
       THEN /\ Return(c, Res("WriteFile", "create", req[c].id))
            /\ UNCHANGED files
       ELSE /\ files' = Created(files, path)
            /\ Goto(c, "wf_reclock", [loc[c] EXCEPT !.f = path, !.off = 0])
    /\ UNCHANGED <<peerVars, concurrentBuilds, mu, tableVars, procs, dirs, logVars>>

WfRecLock(c) == LockStep(c, "wf_reclock", "wf_record")

\* builder.go:150: what WriteFile appends to the lease's writtenFiles
Recorded(c) == <<req[c].filename>>

\* builder.go:148-151
WfRecord(c) ==
    /\ pc[c] = "wf_record"
    /\ Unlock(c)
    /\ writtenFiles' = [writtenFiles EXCEPT ![req[c].id] = @ \o Recorded(c)]
    /\ Goto(c, "wf_write", loc[c])
    /\ UNCHANGED <<peerVars, concurrentBuilds, builds, chanClosed, cmds, procs, fsVars,
                   logVars>>

\* builder.go:153-155
WfWrite(c) ==
    /\ pc[c] = "wf_write"
    /\ files' = [files EXCEPT ![loc[c].f] = WriteAt(@, loc[c].off, req[c].data)]
    /\ Goto(c, "wf_recv", [loc[c] EXCEPT !.off = @ + Len(req[c].data)])
    /\ UNCHANGED <<peerVars, concurrentBuilds, mu, tableVars, procs, dirs, logVars>>

\* ------------------------------------------------------------ Start
RECURSIVE TrimLeft(_)
TrimLeft(str) ==
    IF str # <<>> /\ Head(str) = " " THEN TrimLeft(Tail(str)) ELSE str

RECURSIVE TrimRight(_)
TrimRight(str) ==
    IF str # <<>> /\ str[Len(str)] = " "
    THEN TrimRight(SubSeq(str, 1, Len(str) - 1)) ELSE str

\* strings.TrimSpace
TrimSpace(str) == TrimRight(TrimLeft(str))

\* builder.go:166-184, 199: the sbuild command line
SbuildArgs(r) ==
    [archAll |-> TRUE,
     dist |-> IF r.dist = "" THEN "sid" ELSE r.dist,
     extraPackage |-> r.extra,
     package |-> r.package]

CallStart(c) ==
    \E i \in RequestIds, pkg \in Packages, dist \in Dists, extra \in ExtraLists :
        Begin(c, "st_lock", [NoReq EXCEPT !.id = i, !.package = pkg,
                                          !.dist = dist, !.extra = extra])

StLock(c) == LockStep(c, "st_lock", "st_dir")

\* builder.go:161-184: buildDir, then the validation of the request
StBuildDir(c) ==
    /\ pc[c] = "st_dir"
    /\ Unlock(c)
    /\ LET dir == BuildDirOf(req[c].id) IN
       IF ~BuildDirOk(req[c].id)
       THEN Return(c, Res("Start", "invalid build id", req[c].id))
       ELSE IF TrimSpace(req[c].package) = <<>>
       THEN Return(c, Res("Start", "no package", req[c].id))
       ELSE IF \E k \in 1..Len(req[c].extra) : ~relativeTo(dir, req[c].extra[k])
       THEN Return(c, Res("Start", "outside", req[c].id))
       ELSE Goto(c, "st_create", [loc[c] EXCEPT !.dir = dir,
                                                !.args = SbuildArgs(req[c])])
    /\ UNCHANGED <<peerVars, concurrentBuilds, tableVars, procs, fsVars, logVars>>

\* builder.go:187-197: os.Create of STDOUT and STDERR
StCreate(c) ==
    /\ pc[c] = "st_create"
    /\ LET out == loc[c].dir \o <<"STDOUT">>
           err == loc[c].dir \o <<"STDERR">>
       IN IF ~CanCreate(out) \/ ~CanCreate(err)
          THEN /\ Return(c, Res("Start", "create", req[c].id))
               /\ files' = IF CanCreate(out) THEN Created(files, out) ELSE files
          ELSE /\ files' = Created(Created(files, out), err)
               /\ Goto(c, "st_exec", loc[c])
    /\ UNCHANGED <<peerVars, concurrentBuilds, mu, tableVars, procs, dirs, logVars>>

\* builder.go:199-205: cmd.Start
StExec(c) ==
    /\ pc[c] = "st_exec"
    /\ \/ Return(c, Res("Start", "start", req[c].id)) /\ UNCHANGED procs
       \/ \E p \in Pids :
            /\ procs[p].state = "none"
            /\ \A q \in Pids : q < p => procs[q].state # "none"
            /\ procs' = [procs EXCEPT ![p] = [NoProc EXCEPT !.state = "running",
                                                             !.dir = loc[c].dir]]
            /\ Goto(c, "st_reclock", [loc[c] EXCEPT !.pid = p])
    /\ UNCHANGED <<peerVars, concurrentBuilds, mu, tableVars, fsVars, logVars>>

StRecLock(c) == LockStep(c, "st_reclock", "st_record")

\* builder.go:206-209
StRecord(c) ==
    /\ pc[c] = "st_record"
    /\ Unlock(c)
    /\ cmds' = [cmds EXCEPT ![req[c].id] = loc[c].pid]
    /\ Return(c, Res("Start", "ok", req[c].id))
    /\ UNCHANGED <<peerVars, concurrentBuilds, builds, chanClosed, writtenFiles, procs,
                   fsVars, logVars>>

\* ------------------------------------------------------------ sbuild
\* The subprocess leaves a file in its working directory (cmd.Dir).
ProcWrite(p) ==
    /\ procs[p].state = "running"
    /\ \E name \in ArtifactNames :
         /\ CanCreate(procs[p].dir \o <<name>>)
         /\ files' = [Created(files, procs[p].dir \o <<name>>)
                        EXCEPT ![procs[p].dir \o <<name>>] = <<1>>]
    /\ result' = NoResult
    /\ UNCHANGED <<peerVars, concurrentBuilds, mu, tableVars, procs, dirs, logVars,
                   pc, req, loc, ctxDone, sent>>

\* The subprocess exits.
ProcExit(p) ==
    /\ procs[p].state = "running"
    /\ \E st \in ExitStatuses :
         procs' = [procs EXCEPT ![p].state = "exited", ![p].status = st]
    /\ result' = NoResult
    /\ UNCHANGED <<peerVars, concurrentBuilds, mu, tableVars, fsVars, logVars,
                   pc, req, loc, ctxDone, sent>>

\* ------------------------------------------------------------ Wait
\* uint32(ws.ExitStatus()): a status that is not negative is unchanged; a
\* negative one wraps to 2^32 + n, which is beyond the integers TLC has and
\* is held here as the largest of them (it is only ever compared with 0).
Uint32(n) == IF n < 0 THEN 2147483647 ELSE n

CallWait(c) ==
    \E i \in RequestIds : Begin(c, "wt_lock", [NoReq EXCEPT !.id = i])

WtLock(c) == LockStep(c, "wt_lock", "wt_lookup")

\* builder.go:214: the lookup in s.cmds
CmdOf(i) == IF i \in DOMAIN cmds THEN cmds[i] ELSE NoPid

\* builder.go:213-218
WtLookup(c) ==
    /\ pc[c] = "wt_lookup"
    /\ Unlock(c)
    /\ IF CmdOf(req[c].id) = NoPid
       THEN Return(c, Res("Wait", "not found", req[c].id))
       ELSE Goto(c, "wt_wait", [loc[c] EXCEPT !.pid = CmdOf(req[c].id)])
    /\ UNCHANGED <<peerVars, concurrentBuilds, tableVars, procs, fsVars, logVars>>

\* builder.go:219-231: cmd.Wait and the reply
WtWait(c) ==
    /\ pc[c] = "wt_wait"
    /\ LET p == loc[c].pid IN
       IF procs[p].waited
       THEN /\ Return(c, Res("Wait", "wait", req[c].id))
            /\ UNCHANGED procs
       ELSE /\ procs[p].state = "exited"
            /\ procs' = [procs EXCEPT ![p].waited = TRUE]
            /\ Return(c, [Res("Wait", "ok", req[c].id)
                            EXCEPT !.status = Uint32(procs[p].status)])
    /\ UNCHANGED <<peerVars, concurrentBuilds, mu, tableVars, fsVars, logVars>>

\* ------------------------------------------------------------ Tar
CallTar(c) ==
    \E i \in RequestIds : Begin(c, "tar_lock", [NoReq EXCEPT !.id = i])

TarLock(c) == LockStep(c, "tar_lock", "tar_dir")

\* builder.go:237-240
TarBuildDir(c) ==
    /\ pc[c] = "tar_dir"
    /\ Unlock(c)
    /\ IF ~BuildDirOk(req[c].id)
       THEN Return(c, Res("Tar", "invalid build id", req[c].id))
       ELSE Goto(c, "tar_lock2", [loc[c] EXCEPT !.dir = BuildDirOf(req[c].id)])
    /\ UNCHANGED <<peerVars, concurrentBuilds, tableVars, procs, fsVars, logVars>>

TarLock2(c) == LockStep(c, "tar_lock2", "tar_args")

\* builder.go:244-248: one --exclude=./<name> per recorded upload
ExcludeArgsMutant(i) == <<>>
ExcludeArgs(i) == writtenFiles[i]

\* builder.go:243-249
TarArgs(c) ==
    /\ pc[c] = "tar_args"
    /\ Unlock(c)
    /\ Goto(c, "tar_run", [loc[c] EXCEPT !.args = ExcludeArgs(req[c].id)])
    /\ UNCHANGED <<peerVars, concurrentBuilds, tableVars, procs, fsVars, logVars>>

\* tar's --exclude=./<name>: the member ./<name> and what lies below it
Excluded(rel, excl) ==
    \E k \in 1..Len(excl) :
        /\ Len(excl[k]) <= Len(rel)
        /\ SubSeq(rel, 1, Len(excl[k])) = excl[k]

\* builder.go:251-252: `tar cz <excludes> .` run in dir: the archive's
\* members, each a name relative to dir with the file's bytes
TarTree(dir, excl) ==
    {<<SubSeq(path, Len(dir) + 1, Len(path)), files[path]>> :
       path \in {q \in DOMAIN files :
                   /\ Len(q) > Len(dir)
                   /\ SubSeq(q, 1, Len(dir)) = dir
                   /\ ~Excluded(SubSeq(q, Len(dir) + 1, Len(q)), excl)}}

\* builder.go:251-274: run tar and stream its output
TarRun(c) ==
    /\ pc[c] = "tar_run"
    /\ IF ctxDone[c]
       THEN Return(c, Res("Tar", "send", req[c].id))
       ELSE Return(c, [Res("Tar", "ok", req[c].id)
                         EXCEPT !.tree = TarTree(loc[c].dir, loc[c].args)])
    /\ UNCHANGED <<peerVars, concurrentBuilds, mu, tableVars, procs, fsVars, logVars>>

\* ------------------------------------------------------------ worker spec
WriteFileBody(c) ==
    \/ WfRecv(c) \/ WfLock(c) \/ WfBuildDir(c) \/ WfCreate(c) \/ WfRecLock(c)
    \/ WfRecord(c) \/ WfWrite(c)

StartBody(c) ==
    \/ StLock(c) \/ StBuildDir(c) \/ StCreate(c) \/ StExec(c) \/ StRecLock(c)
    \/ StRecord(c)

WaitBody(c) == WtLock(c) \/ WtLookup(c) \/ WtWait(c)

TarBody(c) ==
    \/ TarLock(c) \/ TarBuildDir(c) \/ TarLock2(c) \/ TarArgs(c) \/ TarRun(c)

\* Every handler of the worker, any number of them in flight.
Next ==
    \/ SemNext
    \/ \E c \in Calls :
         \/ CallWriteFile(c) \/ WriteFileBody(c)
         \/ CallStart(c) \/ StartBody(c)
         \/ CallWait(c) \/ WaitBody(c)
         \/ CallTar(c) \/ TarBody(c)
    \/ \E p \in Pids : ProcWrite(p) \/ ProcExit(p)

Spec == Init /\ [][Next]_vars

\* Handlers that are between their first and their last statement and are
\* not parked in a blocking wait.
Busy == {c \in Calls : pc[c] \notin {"idle", "acq_wait", "wt_wait"}}

\* No handler is running: a caller that sends its requests one at a time
\* sends the next one; held-open Acquire calls and blocked Wait calls stay in
\* flight.
Quiet == Busy = {}

\* Fewer than MaxLeases leases have been granted so far.
FewLeases == Cardinality(acquiredLog) < MaxLeases

\* The semaphore service, StartBuild, Wait and the exit of the subprocesses,
\* one request at a time.
RunNext ==
    \/ \E c \in Calls :
         \/ Quiet /\ FewLeases /\ CallAcquire(c)
         \/ Quiet /\ CallRelease(c)
         \/ Quiet /\ CallStart(c)
         \/ Quiet /\ CallWait(c)
         \/ SemBody(c) \/ StartBody(c) \/ WaitBody(c)
    \/ \E p \in Pids : ProcExit(p)

SpecRun == Init /\ [][RunNext]_vars

\* The semaphore service, uploads, StartBuild, the files the subprocesses
\* leave behind and the download of the artifact tree, one request at a time.
DownloadNext ==
    \/ \E c \in Calls :
         \/ Quiet /\ FewLeases /\ CallAcquire(c)
         \/ Quiet /\ CallRelease(c)
         \/ Quiet /\ CallWriteFile(c)
         \/ Quiet /\ CallStart(c)
         \/ Quiet /\ CallTar(c)
         \/ SemBody(c) \/ WriteFileBody(c) \/ StartBody(c) \/ TarBody(c)
    \/ \E p \in Pids : ProcWrite(p)

SpecDownload == Init /\ [][DownloadNext]_vars

\* The semaphore service and uploads of several chunks, one request at a
\* time.
StreamChunks == {<<1>>, <<2>>}
WfStream(c) == WfRecvWithin(c, UploadNames, StreamChunks, MaxStreamLen)

UploadNext ==
    \E c \in Calls :
        \/ Quiet /\ FewLeases /\ CallAcquire(c)
        \/ Quiet /\ CallRelease(c)
        \/ Quiet /\ CallWriteFile(c)
        \/ SemBody(c)
        \/ WfStream(c) \/ WfLock(c) \/ WfBuildDir(c) \/ WfCreate(c) \/ WfRecLock(c)
        \/ WfRecord(c) \/ WfWrite(c)

SpecUpload == Init /\ [][UploadNext]_vars

\* Every handler of the worker with plain requests, a new call being made
\* while the calls in flight are parked where a handler blocks: an Acquire
\* held open, a Wait on a running subprocess, an upload between two chunks, a
\* download.
BlockingPcs == {"acq_wait", "wt_wait", "wf_recv", "tar_run"}
Parked == \A c \in Calls : pc[c] \in BlockingPcs \cup {"idle"}
PlainStart(c) ==
    \E i \in BuildIds : Begin(c, "st_lock", [NoReq EXCEPT !.id = i, !.package = <<"p">>])
WfPlain(c) == WfRecvWithin(c, {<<"a">>}, Chunks, MaxFileLen)

LockNext ==
    \/ \E c \in Calls :
         \/ Parked /\ FewLeases /\ CallAcquire(c)
         \/ Parked /\ CallRelease(c)
         \/ Parked /\ PlainStart(c)
         \/ Parked /\ CallWait(c)
         \/ Parked /\ CallWriteFile(c)
         \/ Parked /\ CallTar(c)
         \/ SemBody(c) \/ StartBody(c) \/ WaitBody(c) \/ TarBody(c)
         \/ WfPlain(c) \/ WfLock(c) \/ WfBuildDir(c) \/ WfCreate(c) \/ WfRecLock(c)
         \/ WfRecord(c) \/ WfWrite(c)
    \/ \E p \in Pids : ProcExit(p)

SpecLock == Init /\ [][LockNext]_vars

\* ====================================================================
\* Properties of the semaphore service
\* ====================================================================

\* Call c took a step of its own handler.
Stepped(c) == pc'[c] # pc[c]

\* Call c returned res in this step.
Returned(c, res) == pc[c] # "idle" /\ pc'[c] = "idle" /\ result' = [res EXCEPT !.call = c]

\* The parts of the worker a handler can change.
workerState == <<builds, chanClosed, writtenFiles, cmds, procs, dirs, files>>

\* C1: on every worker, under any interleaving of Acquire, Release and caller
\* disconnects, the number of leases in the table never exceeds the
\* configured capacity.
C1_LeasesWithinCapacity == Cardinality(builds) <= concurrentBuilds

\* C1 witness: the table is full after a Release and a disconnect have
\* happened, while another Acquire is inside its capacity check.
C1_Witness ==
    /\ Cardinality(builds) = concurrentBuilds
    /\ releasedLog # {}
    /\ \E c \in Calls : pc[c] = "acq_check"
    /\ ctxDone # [c \in Calls |-> FALSE]

\* C2: when the table holds exactly `capacity` leases, the Acquire that checks
\* it returns "overloaded" in that very step (it is not queued), has sent no
\* grant, and leaves the lease table, the directories and the files as they
\* were.
C2_OverloadedFailsAtOnce ==
    [][\A c \in Calls :
         (pc[c] = "acq_check" /\ Stepped(c)
            /\ Cardinality(builds) = concurrentBuilds)
         => /\ Returned(c, Res("Acquire", "overloaded", ""))
            /\ sent[c] = <<>>
            /\ UNCHANGED workerState]_vars

\* C2 witness: an Acquire was refused as overloaded while the table was full.
C2_Witness ==
    /\ result = [Res("Acquire", "overloaded", "") EXCEPT !.call = result.call]
    /\ Cardinality(builds) = concurrentBuilds

\* C3: when the table holds fewer than `capacity` leases the Acquire passes
\* the check; creating the lease adds exactly one id to the table, an id no
\* lease of this worker ever had (the only other outcome is a failure to
\* create the directory, which adds none); the grant carries that id and the
\* worker's address, and no call ever sends more than one message.
C3_GrantAddsOneFreshLease ==
    /\ [][\A c \in Calls :
            /\ (pc[c] = "acq_check" /\ Stepped(c)
                  /\ Cardinality(builds) < concurrentBuilds)
               => pc'[c] = "acq_create"
            /\ (pc[c] = "acq_create" /\ Stepped(c))
               => \/ /\ pc'[c] = "idle"
                     /\ result'.err \in {"mkdir", "tempdir"}
                     /\ builds' = builds
                  \/ /\ pc'[c] = "acq_send"
                     /\ loc'[c].id \notin builds \cup acquiredLog \cup releasedLog
                     /\ builds' = builds \cup {loc'[c].id}
            /\ (pc[c] = "acq_send" /\ pc'[c] = "acq_wait")
               => /\ sent'[c] = <<[BuildId |-> loc[c].id, HostPort |-> ListenAddr]>>
                  /\ loc[c].id \in acquiredLog
                  /\ builds' = builds]_vars
    /\ [](\A c \in Calls :
            /\ Len(sent[c]) <= 1
            /\ pc[c] = "acq_wait" => Len(sent[c]) = 1)

\* C3 witness: a lease was granted after an earlier lease of the worker had
\* been released, and its grant message is with the caller.
C3_Witness ==
    \E c \in Calls :
        /\ pc[c] = "acq_wait"
        /\ Len(sent[c]) = 1
        /\ sent[c][1].BuildId \in builds
        /\ releasedLog # {}

\* C4: an Acquire call that has sent its grant ends only when Release has
\* been received for exactly its lease id or its caller has disconnected; a
\* Release of another lease never ends it.
C4_HeldOpenUntilOwnRelease ==
    [][\A c \in Calls :
         /\ (pc[c] = "acq_wait" /\ Stepped(c))
            => \/ loc[c].id \in releasedLog
               \/ ctxDone[c]
         /\ \A d \in Calls :
              (pc[c] = "rel_body" /\ Stepped(c) /\ pc[d] = "acq_wait"
                 /\ req[c].id # loc[d].id /\ ~DoneReady(d))
              => ~DoneReady(d)']_vars

\* C4 witness: a call is still held open, its caller connected, after the
\* Release of a different lease has gone through.
C4_Witness ==
    \E c \in Calls :
        /\ pc[c] = "acq_wait"
        /\ ~ctxDone[c]
        /\ loc[c].id \in builds
        /\ \E j \in releasedLog : j # loc[c].id

\* C5: a successful Release(id) removes id from the table, lets the Acquire
\* call held open for id finish, and frees the slot at once: right after it
\* the table is below capacity, and an Acquire that checks a table below
\* capacity is not refused.
C5_ReleaseFreesSlot ==
    [][\A c \in Calls :
         /\ (pc[c] = "rel_body" /\ Stepped(c) /\ result'.err = "ok")
            => /\ req[c].id \in builds
               /\ builds' = builds \ {req[c].id}
               /\ Cardinality(builds') < concurrentBuilds
               /\ \A d \in Calls :
                    (pc[d] = "acq_wait" /\ loc[d].id = req[c].id)
                    => (pc[d] = "acq_wait" /\ DoneReady(d))'
         /\ (pc[c] = "acq_check" /\ Stepped(c)
               /\ Cardinality(builds) < concurrentBuilds)
            => pc'[c] = "acq_create"]_vars

\* C5 witness: a lease was released, the Acquire call that was held open for
\* it has ended, and a later Acquire has taken the freed slot: the worker is
\* at capacity again.
C5_Witness ==
    /\ Cardinality(builds) = concurrentBuilds
    /\ \E i \in releasedLog : \A c \in Calls : loc[c].id # i
    /\ \E d \in Calls : pc[d] = "acq_wait" /\ loc[d].id \in builds /\ ~ctxDone[d]
    /\ \A c \in Calls : pc[c] \in {"idle", "acq_wait"}

\* C6: Release of an id that is not in the table (never granted, or already
\* released) fails with the invalid-build-id error, leaves the table and the
\* done channels as they were and so ends no Acquire call; an id that was
\* released is never valid again, so a second Release of it fails.
C6_UnknownReleaseFails ==
    /\ [][\A c \in Calls :
            (pc[c] = "rel_body" /\ Stepped(c)
               /\ (req[c].id \notin acquiredLog \/ req[c].id \in releasedLog))
            => /\ Returned(c, Res("Release", "invalid build id", req[c].id))
               /\ UNCHANGED workerState
               /\ \A d \in Calls :
                    (pc[d] = "acq_wait" /\ ~DoneReady(d)) => ~DoneReady(d)']_vars
    /\ [](releasedLog \cap builds = {})

\* C6 witness: a second Release of an id failed while another lease was, and
\* stayed, outstanding with its Acquire call open.
C6_Witness ==
    \E d \in Calls :
        /\ result.op = "Release"
        /\ result.err = "invalid build id"
        /\ result.id \in releasedLog
        /\ pc[d] = "acq_wait"
        /\ ~DoneReady(d)

\* ====================================================================
\* Properties of the build service
\* ====================================================================

\* The subprocesses that have been started and have not exited.
Running == {p \in Pids : procs[p].state = "running"}

\* C7: at any instant, after any sequence of Acquire, StartBuild, Wait and
\* Release calls, the build subprocesses that were started and have not yet
\* exited number at most the configured capacity.
C7_RunningBuildsWithinCapacity == Cardinality(Running) <= concurrentBuilds

\* The path a name resolves to lies inside dir.
Inside(dir, name) ==
    LET path == Join(dir, name)
    IN /\ Len(path) > Len(dir)
       /\ SubSeq(path, 1, Len(dir)) = dir

\* Names an upload must refuse: those that resolve outside the working
\* directory, absolute ones, and those with a ".." element.
Unsafe(dir, name) ==
    \/ ~Inside(dir, name)
    \/ Head(name) = ""
    \/ \E k \in 1..Len(name) : name[k] = ".."

\* C8: an UploadFile under a valid lease whose filename is unsafe fails at
\* the point where the name is examined, before any file is created or
\* written, and leaves the files, the directories and the lease's
\* writtenFiles as they were.
C8_TraversalUploadFails ==
    [][\A c \in Calls :
         (pc[c] = "wf_create" /\ Stepped(c)
            /\ Unsafe(loc[c].dir, req[c].filename))
         => /\ pc'[c] = "idle"
            /\ result'.err # "ok"
            /\ UNCHANGED <<files, dirs, writtenFiles>>]_vars

\* The elements of a sequence.
Range(seq) == {seq[k] : k \in 1..Len(seq)}

\* The files of the working directory of lease i, by their names in it.
DirNames(i) ==
    {SubSeq(q, Len(BuildDirOf(i)) + 1, Len(q)) :
       q \in {q \in DOMAIN files : /\ Len(q) > Len(BuildDirOf(i))
                                   /\ SubSeq(q, 1, Len(BuildDirOf(i))) = BuildDirOf(i)}}

C10_UnknownLeaseFails ==
    [][\A c \in Calls :
         (pc[c] \in {"rel_body", "wf_dir", "st_dir", "wt_lookup", "tar_dir"}
            /\ Stepped(c) /\ req[c].id \notin builds)
         => /\ pc'[c] = "idle"
            /\ result'.err \in {"invalid build id", "not found"}
            /\ UNCHANGED workerState]_vars

\* C11: a Wait on a lease whose build was started returns only once the
\* subprocess has exited, and then with its exit status (0 exactly when the
\* subprocess exited with 0), also when it is not the first Wait for the
\* lease; a Wait on a lease with no build started returns "not found" at
\* its lookup.
C11_WaitReturnsExitStatus ==
    [][\A c \in Calls :
         /\ (pc[c] = "wt_wait" /\ Stepped(c))
            => /\ procs[loc[c].pid].state = "exited"
               /\ result'.err = "ok"
               /\ result'.status = 0 <=> procs[loc[c].pid].status = 0
         /\ (pc[c] = "wt_lookup" /\ Stepped(c) /\ CmdOf(req[c].id) = NoPid)
            => Returned(c, Res("Wait", "not found", req[c].id))]_vars

\* A Start request the handler must refuse: unknown lease, blank package,
\* or an extra package whose name resolves outside the lease directory.
BadStart(r) ==
    \/ r.id \notin builds
    \/ TrimSpace(r.package) = <<>>
    \/ \E k \in 1..Len(r.extra) : ~Inside(BuildDirOf(r.id), r.extra[k])

\* C12: a Start with an unknown lease id, a blank package or an extra
\* package outside the lease directory fails at its validation, with no
\* file created and no subprocess launched; a Start that succeeds returns
\* while the subprocess may still run and leaves it in cmds for Wait.
C12_StartValidates ==
    [][\A c \in Calls :
         /\ (pc[c] = "st_dir" /\ Stepped(c) /\ BadStart(req[c]))
            => /\ pc'[c] = "idle"
               /\ result'.err # "ok"
               /\ UNCHANGED <<files, procs, cmds>>
         /\ (pc[c] = "st_record" /\ Stepped(c))
            => /\ Returned(c, Res("Start", "ok", req[c].id))
               /\ CmdOf(req[c].id)' = loc[c].pid]_vars

\* ------------------------------------------------------------ resolver
\* roundrobin.go:113: fi.Mode()&os.ModeSocket != 0
IsSocketMutant(kind) == kind # "none"
IsSocket(kind) == kind = "socket"

\* roundrobin.go:110-116: newSockets
Listing == {n \in SocketNames : IsSocket(dirEntries[n])}

\* Go ranges over a map in an unspecified order: every enumeration of S.
Orderings(S) == {q \in [1..Cardinality(S) -> S] : Range(q) = S}

Upd(op, a) == [Op |-> op, Addr |-> a]

\* roundrobin.go:118-123 and 124-131: the names to delete and to add
Gone(old, new) == old \ new
FreshMutant(old, new) == new
Fresh(old, new) == new \ old

\* The round-robin balancer applies one update to its address list: an Add of
\* a listed address is dropped, a Delete takes the address out.
ApplyOne(list, u) ==
    IF u.Op = "Add"
    THEN IF u.Addr \in Range(list) THEN list ELSE Append(list, u.Addr)
    ELSE SelectSeq(list, LAMBDA a : a # u.Addr)
RECURSIVE Apply(_, _)
Apply(list, batch) ==
    IF batch = <<>> THEN list
    ELSE Apply(ApplyOne(list, Head(batch)), Tail(batch))

\* Next returns batch and the balancer applies it before it calls Next again.
Deliver(batch) ==
    /\ updates' = [returned |-> TRUE, batch |-> batch]
    /\ rrAddrs' = Apply(rrAddrs, batch)
    /\ forwarded' = IF Range(rrAddrs') = Range(rrAddrs) THEN forwarded ELSE <<>>

\* roundrobin.go:92-100: the first call adds every static address
NextStatic ==
    /\ watching
    /\ ~added
    /\ added' = TRUE
    /\ Deliver([k \in 1..Len(addrs) |-> Upd("Add", addrs[k])])
    /\ lbResult' = NoLbResult
    /\ UNCHANGED <<addrs, socketDir, lbBuilds, dirEntries, sockets, watching,
                   rrNext, leases, lbPc, lbLoc, relayed>>
    /\ UNCHANGED <<workerVars, orchVars>>

\* roundrobin.go:102-137: every later call polls the watched directory (with
\* no -socket_dir it blocks for good)
NextPoll ==
    /\ watching
    /\ added
    /\ socketDir # ""
    /\ \/ \* ioutil.ReadDir fails: Next returns the error and the balancer
          \* stops watching
          /\ watching' = FALSE
          /\ updates' = NoUpdates
          /\ UNCHANGED <<sockets, rrAddrs, forwarded>>
       \/ /\ IF sockets = Listing
             THEN /\ Deliver(<<>>)
                  /\ UNCHANGED sockets
             ELSE /\ \E ds \in Orderings(Gone(sockets, Listing)),
                        as \in Orderings(Fresh(sockets, Listing)) :
                        Deliver([k \in 1..Len(ds) |-> Upd("Delete", SockAddr(ds[k]))]
                                \o [k \in 1..Len(as) |-> Upd("Add", SockAddr(as[k]))])
                  /\ sockets' = Listing
          /\ UNCHANGED watching
    /\ lbResult' = NoLbResult
    /\ UNCHANGED <<addrs, socketDir, lbBuilds, dirEntries, added, rrNext, leases,
                   lbPc, lbLoc, relayed>>
    /\ UNCHANGED <<workerVars, orchVars>>

\* Somebody creates, replaces or removes an entry of the watched directory.
DirChange(n, k) ==
    /\ socketDir # ""
    /\ dirEntries[n] # k
    /\ dirEntries' = [dirEntries EXCEPT ![n] = k]
    /\ updates' = NoUpdates
    /\ lbResult' = NoLbResult
    /\ UNCHANGED <<addrs, socketDir, lbBuilds, added, sockets, watching, rrAddrs,
                   rrNext, forwarded, leases, lbPc, lbLoc, relayed>>
    /\ UNCHANGED <<workerVars, orchVars>>

\* ------------------------------------------------------------ balancer
\* What every step of a balancer handler leaves alone.
LbFrame ==
    /\ updates' = NoUpdates
    /\ UNCHANGED <<addrs, socketDir, lbBuilds, dirEntries, added, sockets, watching,
                   rrAddrs>>
    /\ UNCHANGED <<workerVars, orchVars>>

\* A balancer handler returns res: its streams are gone, and so is the caller's
\* use for the grant it was sent.
LbReturn(c, res) ==
    /\ lbPc' = [lbPc EXCEPT ![c] = "idle"]
    /\ lbLoc' = [lbLoc EXCEPT ![c] = NoConn]
    /\ relayed' = [relayed EXCEPT ![c] = <<>>]
    /\ lbResult' = [res EXCEPT !.call = c]

\* A caller opens Acquire on the balancer.
LbCallAcquire(c) ==
    /\ lbPc[c] = "idle"
    /\ Len(forwarded) + Cardinality({d \in Calls : lbPc[d] = "pick"}) < MaxForwards
    /\ lbPc' = [lbPc EXCEPT ![c] = "pick"]
    /\ lbResult' = NoLbResult
    /\ UNCHANGED <<rrNext, forwarded, leases, lbLoc, relayed>>
    /\ LbFrame

\* roundrobin.go:180: grpc.RoundRobin hands out the listed addresses in turn
PickedMutant(list, n) == 1
Picked(list, n) == IF n >= Len(list) THEN 1 ELSE n + 1

\* roundrobin.go:42-45: s.fbc.Acquire picks a backend and opens the stream
LbPick(c) ==
    /\ lbPc[c] = "pick"
    /\ IF rrAddrs = <<>>
       THEN /\ LbReturn(c, LbRes("Acquire", "unavailable"))
            /\ UNCHANGED <<rrNext, forwarded>>
       ELSE /\ rrNext' = Picked(rrAddrs, rrNext) % Len(rrAddrs)
            /\ forwarded' = Append(forwarded, rrAddrs[Picked(rrAddrs, rrNext)])
            /\ lbPc' = [lbPc EXCEPT ![c] = "backend"]
            /\ lbLoc' = [lbLoc EXCEPT ![c] =
                           [NoConn EXCEPT !.backend = rrAddrs[Picked(rrAddrs, rrNext)]]]
            /\ lbResult' = NoLbResult
            /\ UNCHANGED relayed
    /\ UNCHANGED leases
    /\ LbFrame

\* builder.go:65-99 on the picked worker: refuse at capacity, fail to make the
\* lease directory, or record a lease and send the grant
BackendAcquire(c) ==
    /\ lbPc[c] = "backend"
    /\ LET b == lbLoc[c].backend IN
       \/ /\ Cardinality(leases[b]) >= concurrentBuilds
          /\ lbLoc' = [lbLoc EXCEPT ![c].in = [NoMsg EXCEPT !.kind = "err",
                                                           !.err = "overloaded"]]
          /\ UNCHANGED leases
       \/ /\ Cardinality(leases[b]) < concurrentBuilds
          /\ lbLoc' = [lbLoc EXCEPT ![c].in = [NoMsg EXCEPT !.kind = "err",
                                                           !.err = "mkdir"]]
          /\ UNCHANGED leases
       \/ /\ Cardinality(leases[b]) < concurrentBuilds
          /\ \E i \in BuildIds \ leases[b] :
               /\ leases' = [leases EXCEPT ![b] = @ \cup {i}]
               /\ lbLoc' = [lbLoc EXCEPT ![c].id = i,
                                         ![c].in = [NoMsg EXCEPT !.kind = "grant",
                                                                 !.id = i,
                                                                 !.hostPort = HostPort]]
    /\ lbPc' = [lbPc EXCEPT ![c] = "recv"]
    /\ lbResult' = NoLbResult
    /\ UNCHANGED <<rrNext, forwarded, relayed>>
    /\ LbFrame

\* roundrobin.go:54-59: the grant as the balancer sends it on
RewrittenMutant(msg, backend) == msg
Rewritten(msg, backend) == [msg EXCEPT !.hostPort = PeerAddr(backend)]

\* roundrobin.go:46-63: one turn of the receive loop
LbRecv(c) ==
    /\ lbPc[c] = "recv"
    /\ lbLoc[c].in.kind # "none"
    /\ \/ /\ lbLoc[c].in.kind = "eof"
          /\ LbReturn(c, LbRes("Acquire", "ok"))
       \/ /\ lbLoc[c].in.kind = "err"
          /\ LbReturn(c, LbRes("Acquire", lbLoc[c].in.err))
       \/ /\ lbLoc[c].in.kind = "grant"
          /\ relayed' = [relayed EXCEPT ![c] =
                           Append(@, Rewritten(lbLoc[c].in, lbLoc[c].backend))]
          /\ lbLoc' = [lbLoc EXCEPT ![c].in = NoMsg]
          /\ lbResult' = NoLbResult
          /\ UNCHANGED lbPc
    /\ UNCHANGED <<rrNext, forwarded, leases>>
    /\ LbFrame

\* The caller of an open Acquire goes away: both streams are cancelled, the
\* worker's handler returns and leaves the lease in its table.
LbCancel(c) ==
    /\ lbPc[c] = "recv"
    /\ lbLoc[c].in.kind \in {"none", "grant"}
    /\ lbLoc' = [lbLoc EXCEPT ![c].in = [NoMsg EXCEPT !.kind = "err",
                                                     !.err = "canceled"]]
    /\ lbResult' = NoLbResult
    /\ UNCHANGED <<rrNext, forwarded, leases, lbPc, relayed>>
    /\ LbFrame

\* builder.go:100-105 and 108-120: Release at backend b of lease id closes the
\* lease's channel, on which the Acquire handler that granted the lease is
\* waiting: that handler returns and the stream call d reads from ends.
AwaitsReleaseMutant(d, b, id) == FALSE
AwaitsRelease(d, b, id) ==
    /\ lbPc[d] = "recv"
    /\ lbLoc[d].backend = b
    /\ lbLoc[d].id = id
    /\ lbLoc[d].in.kind = "none"

\* part_004:98-101 and 187-190, builder.go:108-120: the caller dials the
\* address of the grant it received and releases the lease there; the worker
\* closes the lease's channel, which ends the Acquire stream.
ClientRelease(c) ==
    /\ relayed[c] # <<>>
    /\ LET g == relayed[c][1]
           b == Listener(g.hostPort) IN
       /\ b # NoBackend
       /\ g.id \in leases[b]
       /\ leases' = [leases EXCEPT ![b] = @ \ {g.id}]
       /\ lbLoc' = [d \in Calls |->
                      IF AwaitsRelease(d, b, g.id)
                      THEN [lbLoc[d] EXCEPT !.in = [NoMsg EXCEPT !.kind = "eof"]]
                      ELSE lbLoc[d]]
    /\ lbResult' = NoLbResult
    /\ UNCHANGED <<rrNext, forwarded, lbPc, relayed>>
    /\ LbFrame

\* roundrobin.go:66-69: the lease ids Release on the balancer releases at
\* backend b
LbReleasedMutant(b, id) == leases[b] \cap {id}
LbReleased(b, id) == {}

\* roundrobin.go:66-69
LbRelease(c, id) ==
    /\ lbPc[c] = "idle"
    /\ leases' = [b \in Backends |-> leases[b] \ LbReleased(b, id)]
    /\ LbReturn(c, [LbRes("Release", "not implemented") EXCEPT !.id = id])
    /\ UNCHANGED <<rrNext, forwarded>>
    /\ LbFrame

\* roundrobin.go:71-76
LbGet(c) ==
    /\ lbPc[c] = "idle"
    /\ LbReturn(c, [LbRes("Get", "ok") EXCEPT !.builds = lbBuilds])
    /\ UNCHANGED <<rrNext, forwarded, leases>>
    /\ LbFrame

\* roundrobin.go:154-204: the balancer starts with its flags parsed (it
\* refuses to start with neither a static backend nor a socket directory);
\* the workers behind it all run with the same -concurrent_builds.
LbInit ==
    /\ WorkerInit
    /\ OrchIdle
    /\ \E ports \in BuilderPorts : addrs = ParsePorts(ports)
    /\ socketDir \in SocketDirs
    /\ addrs # <<>> \/ socketDir # ""
    /\ lbBuilds = MaxCapacity
    /\ dirEntries = [n \in SocketNames |-> "none"]
    /\ added = FALSE
    /\ sockets = {}
    /\ watching = TRUE
    /\ updates = NoUpdates
    /\ rrAddrs = <<>>
    /\ rrNext = 0
    /\ forwarded = <<>>
    /\ leases = [b \in Backends |-> {}]
    /\ lbPc = [c \in Calls |-> "idle"]
    /\ lbLoc = [c \in Calls |-> NoConn]
    /\ relayed = [c \in Calls |-> <<>>]
    /\ lbResult = NoLbResult

\* The resolver on its own, with every change the watched directory can see.
ResolverNext ==
    \/ NextStatic
    \/ NextPoll
    \/ \E n \in SocketNames, k \in EntryKinds : DirChange(n, k)

SpecResolver == LbInit /\ [][ResolverNext]_vars

\* The balancer serving callers that send one request at a time, in front of
\* the static backends and of one socket of the watched directory.
LbBusy == {c \in Calls : \/ lbPc[c] \in {"pick", "backend"}
                         \/ lbPc[c] = "recv" /\ lbLoc[c].in.kind # "none"}
LbQuiet == LbBusy = {}
Outstanding == UNION {{<<b, i>> : i \in leases[b]} : b \in Backends}
LbFewLeases == Cardinality(Outstanding) <= MaxLeases

LbNext ==
    \/ NextStatic
    \/ NextPoll
    \/ \E k \in EntryKinds : DirChange("x", k)
    \/ \E c \in Calls :
         \/ LbQuiet /\ LbFewLeases /\ LbCallAcquire(c)
         \/ LbPick(c)
         \/ BackendAcquire(c)
         \/ LbRecv(c)
         \/ LbQuiet /\ LbCancel(c)
         \/ LbQuiet /\ ClientRelease(c)
         \/ LbQuiet /\ \E i \in RequestIds : LbRelease(c, i)
         \/ LbQuiet /\ LbGet(c)

SpecBalancer == LbInit /\ [][LbNext]_vars

\* ------------------------------------------------- balancer properties
\* C13: a grant relayed by the balancer names the worker that granted it: a
\* caller that dials the relayed address reaches the backend the Acquire was
\* forwarded to, and that backend's lease table holds the relayed lease id
\* until the lease is released there.
C13_RelayedAddressIsGranter ==
    \A c \in Calls : \A k \in 1..Len(relayed[c]) :
        /\ Listener(relayed[c][k].hostPort) = lbLoc[c].backend
        /\ relayed[c][k].id = lbLoc[c].id
        /\ lbLoc[c].in.kind # "eof"
           => relayed[c][k].id \in leases[Listener(relayed[c][k].hostPort)]

\* A grant of a worker other than the one at localhost:12311 has been relayed
\* while that worker is a backend too.
C13_Witness ==
    \E c \in Calls :
        /\ relayed[c] # <<>>
        /\ lbLoc[c].backend # Listener(HostPort)
        /\ relayed[c][1].hostPort # HostPort
        /\ Listener(HostPort) \in Range(rrAddrs)

\* C14: a Release sent to the balancer fails and leaves the lease table of
\* every backend as it was, whatever lease id it names.
C14_BalancerReleaseFails ==
    [][lbResult'.op = "Release"
         => /\ lbResult'.err # "ok"
            /\ leases' = leases]_vars

\* The balancer has just answered a Release that named a lease it relayed and
\* that is still outstanding on the granting backend.
C14_Witness ==
    /\ lbResult.op = "Release"
    /\ \E c \in Calls :
         /\ relayed[c] # <<>>
         /\ relayed[c][1].id = lbResult.id
         /\ lbResult.id \in leases[lbLoc[c].backend]

Count(list, b) == Cardinality({k \in 1..Len(list) : list[k] = b})

\* C15: while the backend set stays the same, each of its K backends has been
\* forwarded at least floor(M/K) of the M Acquire requests made so far.
C15_RoundRobinFair ==
    rrAddrs # <<>> =>
        \A b \in Range(rrAddrs) :
            Count(forwarded, b) >= Len(forwarded) \div Len(rrAddrs)

\* Two rounds over two backends, and a second round begun over three.
C15_Witness ==
    \/ Len(rrAddrs) = 2 /\ Len(forwarded) = 4
    \/ Len(rrAddrs) = 3 /\ Len(forwarded) = 4

C17_OnlyRealChanges ==
    [][(updates'.returned /\ added)
         => /\ sockets = {n \in SocketNames : dirEntries[n] = "socket"}
                 => updates'.batch = <<>>
            /\ \A k \in 1..Len(updates'.batch) :
                 LET before == Range(Apply(rrAddrs, SubSeq(updates'.batch, 1, k - 1)))
                 IN  IF updates'.batch[k].Op = "Add"
                     THEN updates'.batch[k].Addr \notin before
                     ELSE updates'.batch[k].Addr \in before]_vars

\* A poll found the socket it already knew and returned no update.
C17_Witness ==
    /\ updates.returned
    /\ updates.batch = <<>>
    /\ sockets # {}
    /\ sockets = {n \in SocketNames : dirEntries[n] = "socket"}

\* -------------------------------------------------------- orchestrator
\* What every step of the orchestrator leaves alone.
OrchFrame == UNCHANGED <<workerVars, lbVars, poolSize, recheck>>

\* The packages of the run: the keys of rebuild, in the order the loop at
\* part_002:353 meets them.
Present == {t \in Tasks : task[t].pc # "absent"}

\* builder.go:65-70 seen from the orchestrator: the worker is at capacity
RECURSIVE LeasesOf(_)
LeasesOf(S) ==
    IF S = {} THEN 0
    ELSE LET t == CHOOSE u \in S : TRUE IN task[t].leases + LeasesOf(S \ {t})
WorkerFull == foreign + LeasesOf(Tasks) >= concurrentBuilds

\* part_004:88-96 as seen from build(): the ways the acquire handshake can
\* fail besides "overloaded".  The worker reports "overloaded" and a failed
\* MkdirAll/TempDir alike with fmt.Errorf (builder.go:69-80), which the stream
\* delivers to Recv with code Unknown; an unreachable server fails either call
\* with Unavailable; any other failure to open the stream comes back from
\* semaphore.Acquire.
Overloaded == Failure("acquire", "overloaded", TRUE, "Unknown")
AcquireFailures ==
    {Failure("acquire", "mkdir", TRUE, "Unknown"),
     Failure("acquire", "unavailable", TRUE, "Unavailable"),
     Failure("acquire", "unavailable", FALSE, "Unavailable"),
     Failure("acquire", "internal", FALSE, "Internal")}

\* part_004:98-190: the ways a step of build() can fail once it holds a grant
BuildFailures(stage) ==
    {Failure(stage, "unavailable", FALSE, "Unavailable"),
     Failure(stage, "rpc", FALSE, "Unknown")}

\* part_004:37-45
isTemporaryMutant(e) == e.wrapped
isTemporary(e) == e.wrapped \/ e.code = "Unavailable"

\* part_002:379: concurrent <- struct{}{} goes through while the channel has
\* room, and puts one token in it
CanSend == concurrent < poolSize
SentMutant(n) == n
Sent(n) == n + 1

\* birdseye.go:69-73 with part_002:349 and 355-358: b.states[num] = state,
\* num being the index of the package; an index past the slice panics
InRange(t) == t - 1 < Len(states)
Status(t, state) == states' = [states EXCEPT ![t] = state]

\* part_002:358 and 378: the goroutine of a package starts and reports
\* stateInit, then stateSleep
TaskStart(t) ==
    /\ exit = "running"
    /\ task[t].pc = "init"
    /\ IF InRange(t)
       THEN /\ task' = [task EXCEPT ![t].pc = "sleep"]
            /\ Status(t, "S")
            /\ UNCHANGED exit
       ELSE /\ exit' = "panic"
            /\ UNCHANGED <<task, states>>
    /\ UNCHANGED <<concurrent, retry, outcome, egErr, foreign, faults, report>>
    /\ OrchFrame

\* part_002:379-380
TaskToken(t) ==
    /\ exit = "running"
    /\ task[t].pc = "sleep"
    /\ CanSend
    /\ concurrent' = Sent(concurrent)
    /\ task' = [task EXCEPT ![t].pc = "acquire", ![t].token = TRUE,
                            ![t].trace = <<"token">>, ![t].uploads = 0]
    /\ Status(t, "R")
    /\ UNCHANGED <<retry, outcome, egErr, foreign, faults, report, exit>>
    /\ OrchFrame

\* part_002:382-389: build() returned the error e
TaskError(t, e) ==
    /\ outcome' = [outcome EXCEPT ![t] = e]
    /\ IF isTemporary(e)
       THEN /\ task' = [task EXCEPT ![t].pc = "retry_wait"]
            /\ Status(t, "E")
            /\ UNCHANGED egErr
       ELSE /\ task' = [task EXCEPT ![t].pc = "failed"]
            /\ Status(t, "D")
            /\ egErr' = IF egErr = "" THEN e.cause ELSE egErr
    /\ UNCHANGED <<concurrent, retry, foreign, report, exit>>

\* A failure of the transport or of a host, while the run may still have one.
Fault(t, e) ==
    /\ faults < MaxFaults
    /\ faults' = faults + 1
    /\ TaskError(t, e)

\* part_004:88-192: the calls of build() in the order of its statements:
\* Acquire, WriteFile per extra package, Start, Wait, Tar, Release
StepsMutant == <<"acquire", "upload", "start", "wait", "release", "download">>
Steps == <<"acquire", "upload", "start", "wait", "download", "release">>
Following(p) ==
    LET k == CHOOSE n \in 1..Len(Steps) : Steps[n] = p
    IN  IF k < Len(Steps) THEN Steps[k + 1] ELSE "return"

\* A call of build() went through: the job, with what the call changed, is at
\* the statement that follows.
Proceed(t, j) ==
    /\ task' = [task EXCEPT ![t] = [j EXCEPT !.pc = Following(j.pc),
                                             !.trace = Append(@, j.pc)]]
    /\ UNCHANGED <<concurrent, retry, egErr, states, foreign, faults, report, exit>>

\* part_002:381, part_004:88-96: the acquire handshake of build()
TaskAcquire(t) ==
    /\ exit = "running"
    /\ task[t].pc = "acquire"
    /\ \/ /\ WorkerFull
          /\ TaskError(t, Overloaded)
          /\ UNCHANGED faults
       \/ /\ ~WorkerFull
          /\ Proceed(t, [task[t] EXCEPT !.leases = @ + 1])
          /\ UNCHANGED outcome
       \/ \E e \in AcquireFailures : Fault(t, e)
    /\ OrchFrame

\* part_004:98-122: dial the granted address and upload every extra package
TaskUpload(t) ==
    /\ exit = "running"
    /\ task[t].pc = "upload"
    /\ \/ /\ Proceed(t, [task[t] EXCEPT !.uploads = task[t].extraDebs])
          /\ UNCHANGED outcome
       \/ \E e \in BuildFailures("upload") : Fault(t, e)
    /\ OrchFrame

\* part_004:124-130: start the build
TaskBuild(t) ==
    /\ exit = "running"
    /\ task[t].pc = "start"
    /\ \/ /\ Proceed(t, [task[t] EXCEPT !.sbuilds = @ + 1])
          /\ UNCHANGED outcome
       \/ \E e \in BuildFailures("start") : Fault(t, e)
    /\ OrchFrame

\* part_004:132-135: Wait returns the exit status once sbuild has exited
TaskWait(t) ==
    /\ exit = "running"
    /\ task[t].pc = "wait"
    /\ \/ \E st \in ExitStatuses :
            /\ Proceed(t, [task[t] EXCEPT !.sbuilds = @ - 1])
            /\ outcome' = [outcome EXCEPT ![t] = [NoOutcome EXCEPT !.status = st]]
       \/ \E e \in BuildFailures("wait") : Fault(t, e)
    /\ OrchFrame

\* part_004:139-188: download the artifacts and move them into place
TaskDownload(t) ==
    /\ exit = "running"
    /\ task[t].pc = "download"
    /\ \/ /\ Proceed(t, task[t])
          /\ UNCHANGED outcome
       \/ \E e \in BuildFailures("download") : Fault(t, e)
    /\ OrchFrame

\* part_004:190-192: Release, on the connection to the granted address
\* (part_004:107)
TaskRelease(t) ==
    /\ exit = "running"
    /\ task[t].pc = "release"
    /\ \/ /\ Proceed(t, [task[t] EXCEPT !.leases = @ - 1])
          /\ UNCHANGED outcome
       \/ \E e \in BuildFailures("release") : Fault(t, e)
    /\ OrchFrame

\* part_002:406-414: the entry of buildresults for a job
CategoryMutant(j) ==
    IF j.first = "err" THEN "failing" ELSE "passing"
Category(j) ==
    IF j.recheck /\ j.second = "err" THEN "alreadyBroken"
    ELSE IF j.first = "err" THEN "failing"
    ELSE "passing"

\* part_002:399-401: the job as it is sent round again for its recheck
RecheckJobMutant(j) == [j EXCEPT !.recheck = TRUE]
RecheckJob(j) == [j EXCEPT !.recheck = TRUE, !.extraDebs = 0]

\* part_002:391-417: build() returned a result with exit status st
TaskResult(t, st) ==
    LET err == IF st # 0 THEN "err" ELSE "nil"
        job == IF task[t].recheck THEN [task[t] EXCEPT !.second = err]
               ELSE [task[t] EXCEPT !.first = err]
    IN  /\ concurrent' = concurrent - 1
        /\ IF err = "err" /\ recheck /\ ~job.recheck
           THEN /\ task' = [task EXCEPT ![t] = [RecheckJob(job) EXCEPT
                                                   !.pc = "sleep", !.token = FALSE]]
                /\ Status(t, "S")
           ELSE /\ task' = [task EXCEPT ![t] = [job EXCEPT !.pc = "done",
                                                            !.token = FALSE,
                                                            !.category = Category(job)]]
                /\ Status(t, "D")
        /\ UNCHANGED <<retry, outcome, egErr, foreign, report, exit>>

\* part_004:194-201 and part_002:381-417: build() returns its result
TaskFinish(t) ==
    /\ exit = "running"
    /\ task[t].pc = "return"
    /\ TaskResult(t, outcome[t].status)
    /\ UNCHANGED faults
    /\ OrchFrame

\* part_002:385: a receive takes one tick out of the channel
ReceivedMutant(n) == n
Received(n) == n - 1

\* part_002:385: <-retry
TaskRetryWait(t) ==
    /\ exit = "running"
    /\ task[t].pc = "retry_wait"
    /\ retry > 0
    /\ retry' = Received(retry)
    /\ task' = [task EXCEPT ![t].pc = "retry_release"]
    /\ UNCHANGED <<concurrent, outcome, egErr, states, foreign, faults, report, exit>>
    /\ OrchFrame

\* part_002:386-387 and 378: <-concurrent, continue
TaskRetryRelease(t) ==
    /\ exit = "running"
    /\ task[t].pc = "retry_release"
    /\ concurrent' = concurrent - 1
    /\ task' = [task EXCEPT ![t].pc = "sleep", ![t].token = FALSE]
    /\ Status(t, "S")
    /\ UNCHANGED <<retry, outcome, egErr, foreign, faults, report, exit>>
    /\ OrchFrame

\* part_002:346: time.Tick(1 * time.Second) keeps at most one tick waiting
Tick ==
    /\ exit = "running"
    /\ retry = 0
    /\ retry' = 1
    /\ UNCHANGED <<concurrent, task, outcome, egErr, states, foreign, faults, report,
                   exit>>
    /\ OrchFrame

\* builder.go:108-120: another caller releases its lease on the worker
ForeignRelease ==
    /\ foreign > 0
    /\ foreign' = foreign - 1
    /\ UNCHANGED <<concurrent, retry, task, outcome, egErr, states, faults, report,
                   exit>>
    /\ OrchFrame

\* builder.go:199-205: an sbuild subprocess nobody waits for exits
SbuildExit(t) ==
    /\ task[t].sbuilds > (IF task[t].pc = "wait" THEN 1 ELSE 0)
    /\ task' = [task EXCEPT ![t].sbuilds = @ - 1]
    /\ UNCHANGED <<concurrent, retry, outcome, egErr, states, foreign, faults, report,
                   exit>>
    /\ OrchFrame

\* part_002:442 and 453: the order of the categories in the report
ReportOrderMutant == <<"failing", "passing">>
ReportOrder == <<"passing", "alreadyBroken", "failing">>

\* part_002:441-451: one line per entry of buildresults, category by
\* category (the entries of a category in the order the map yields them), and
\* for each category the count of its lines
RECURSIVE Flatten(_)
Flatten(seqs) == IF seqs = <<>> THEN <<>> ELSE Head(seqs) \o Flatten(Tail(seqs))
Listings ==
    {Flatten([k \in 1..Len(ReportOrder) |->
                [i \in 1..Len(q[k]) |-> [pkg |-> q[k][i], category |-> ReportOrder[k]]]]) :
       q \in {o \in [1..Len(ReportOrder) -> UNION {Orderings(S) : S \in SUBSET Present}] :
                \A k \in 1..Len(ReportOrder) :
                   Range(o[k]) = {t \in Present : task[t].category = ReportOrder[k]}}}
Reports ==
    {[lines |-> ls,
      counts |-> [c \in Categories |->
                    Cardinality({k \in 1..Len(ls) : ls[k].category = c})]] :
       ls \in Listings}

\* part_002:433-459: eg.Wait returns when every goroutine has; log.Fatal on
\* the first error, else the report and the end of main
Finish ==
    /\ exit = "running"
    /\ \A t \in Present : task[t].pc \in {"done", "failed"}
    /\ IF egErr # ""
       THEN /\ exit' = "fatal"
            /\ UNCHANGED report
       ELSE /\ exit' = "ok"
            /\ report' \in Reports
    /\ UNCHANGED <<concurrent, retry, task, outcome, egErr, states, foreign, faults>>
    /\ OrchFrame

\* os exit status of the process
ExitCode ==
    CASE exit = "ok" -> 0
      [] exit = "fatal" -> 1
      [] exit = "panic" -> 2
      [] OTHER -> 0

\* part_002:325-357: the orchestrator has sized concurrent and the reporter
\* to the capacity the Get call returned and has started one goroutine per
\* package; other callers may hold leases on the worker.
OrchInit ==
    /\ WorkerInit
    /\ LbIdle
    /\ poolSize \in 0..MaxCapacity
    /\ concurrent = 0
    /\ retry = 0
    /\ recheck \in BOOLEAN
    /\ \E n \in 0..MaxTasks, debs \in 0..MaxExtra :
         task = [t \in Tasks |-> IF t <= n THEN [NewTask EXCEPT !.extraDebs = debs]
                                 ELSE [NewTask EXCEPT !.pc = "absent"]]
    /\ outcome = [t \in Tasks |-> NoOutcome]
    /\ egErr = ""
    /\ states = [k \in 1..poolSize |-> " "]
    /\ foreign \in 0..concurrentBuilds
    /\ faults = 0
    /\ report = NoReport
    /\ exit = "running"

TaskStep(t) ==
    \/ TaskStart(t)
    \/ TaskToken(t)
    \/ TaskAcquire(t)
    \/ TaskUpload(t)
    \/ TaskBuild(t)
    \/ TaskWait(t)
    \/ TaskDownload(t)
    \/ TaskRelease(t)
    \/ TaskFinish(t)
    \/ TaskRetryWait(t)
    \/ TaskRetryRelease(t)

OrchNext ==
    \/ Tick
    \/ ForeignRelease
    \/ Finish
    \/ \E t \in Tasks : TaskStep(t) \/ SbuildExit(t)

SpecOrch == OrchInit /\ [][OrchNext]_vars

\* The goroutines, the ticker, the worker's other callers and its
\* subprocesses all keep running; a receive on retry is served in turn.
SpecOrchFair ==
    /\ SpecOrch
    /\ WF_vars(Tick)
    /\ WF_vars(ForeignRelease)
    /\ WF_vars(Finish)
    /\ \A t \in Tasks : /\ WF_vars(TaskStep(t))
                        /\ SF_vars(TaskRetryWait(t))
                        /\ WF_vars(SbuildExit(t))

\* ---------------------------------------------- orchestrator properties
Holders == {t \in Tasks : task[t].token}
InBuild == {"acquire", "upload", "start", "wait", "download", "release", "return"}

\* C18: the tasks that hold a token are never more than the capacity the Get
\* call returned, the channel holds one token for each of them, and a task is
\* inside build() only while it holds one.
C18_TokensWithinCapacity ==
    /\ Cardinality(Holders) <= poolSize
    /\ concurrent = Cardinality(Holders)
    /\ \A t \in Tasks :
         task[t].pc \in InBuild => t \in Holders

\* The pool is full: every token is held by a task inside build().
C18_Witness ==
    /\ poolSize = MaxTasks
    /\ \A t \in Tasks : task[t].pc \in InBuild

\* C19: a task that waits for the retry tick after a transient failure has
\* given its token back.
C19_NoTokenDuringRetryDelay ==
    \A t \in Tasks : task[t].pc = "retry_wait" => t \notin Holders

\* The conditions the orchestrator is to retry.
Transient(e) == e.cause \in {"overloaded", "unavailable"}

\* C20: an acquire handshake that fails is retried exactly when the failure
\* is "overloaded" or unavailability of the transport; with any other failure
\* the task gives up and its error ends the run.
C20_RetriesExactlyTransient ==
    [][\A t \in Tasks :
         (task[t].pc = "acquire" /\ task'[t].pc \notin {"acquire", "upload"})
           => IF Transient(outcome'[t])
              THEN task'[t].pc = "retry_wait" /\ egErr' = egErr
              ELSE task'[t].pc = "failed" /\ egErr' # ""]_vars

\* The original statement of C21: the run is aborted only over a failure of
\* the acquire handshake; a job that fails in a later step fails alone.
C21_JobFailureNotFatal ==
    exit = "fatal" =>
        \A t \in Present : task[t].pc = "failed" => outcome[t].stage = "acquire"

\* C21: a failure of build() in a step after the grant (dial, upload, start,
\* wait, download, release) is retried when it is unavailability of the
\* transport; any other one ends the task without a classification and is
\* handed to the errgroup, and a run that ends over such an error prints no
\* report, whatever its other jobs came to.
C21_BuildFailureEndsRun ==
    [][/\ \A t \in Tasks :
            (/\ task[t].pc \in InBuild \ {"acquire"}
             /\ task'[t].pc \in {"retry_wait", "failed"})
              => IF outcome'[t].code = "Unavailable"
                 THEN task'[t].pc = "retry_wait" /\ egErr' = egErr
                 ELSE /\ task'[t].pc = "failed"
                      /\ task'[t].category = ""
                      /\ egErr' # ""
       /\ exit' = "fatal" => egErr' # "" /\ report' = NoReport]_vars

\* The run has ended over a job that failed while waiting for its build, and
\* the other job had been classified.
C21_Witness ==
    /\ exit = "fatal"
    /\ \E t, u \in Present :
         /\ task[t].pc = "failed"
         /\ outcome[t].stage = "wait"
         /\ task[u].category # ""

\* C22: the category of a job is a function of its outcomes: Passing when
\* the first build succeeded, AlreadyBroken when the first build and the
\* recheck failed, Failing when the first build failed and the recheck is
\* disabled or succeeded; a job is classified in no other case, and a job
\* that is done is classified.
C22_ClassificationTable ==
    \A t \in Present :
        /\ task[t].pc = "done" <=> task[t].category # ""
        /\ task[t].category = "passing" <=> task[t].pc = "done" /\ task[t].first = "nil"
        /\ task[t].category = "alreadyBroken" <=>
             task[t].pc = "done" /\ task[t].first = "err" /\ task[t].second = "err"
        /\ task[t].category = "failing" <=>
             /\ task[t].pc = "done"
             /\ task[t].first = "err"
             /\ \/ ~recheck /\ task[t].second = ""
                \/ recheck /\ task[t].second = "nil"

\* One job failed twice and is AlreadyBroken, another failed and passed its
\* recheck and is Failing.
C22_Witness ==
    \E t, u \in Present :
        /\ task[t].category = "alreadyBroken"
        /\ task[u].category = "failing"
        /\ task[u].second = "nil"

\* C23: the report of a run that completed lists every package once, under
\* the category the package was given; the counts are those of the lines and
\* add up to the number of packages; the Passing lines come before all
\* others.
C23_ReportComplete ==
    exit = "ok" =>
        /\ Len(report.lines) = Cardinality(Present)
        /\ \A t \in Present :
             \E k \in 1..Len(report.lines) :
                /\ report.lines[k] = [pkg |-> t, category |-> task[t].category]
                /\ \A n \in 1..Len(report.lines) : report.lines[n].pkg = t => n = k
        /\ \A c \in Categories :
             report.counts[c] = Cardinality({t \in Present : task[t].category = c})
        /\ report.counts["passing"] + report.counts["alreadyBroken"]
             + report.counts["failing"] = Cardinality(Present)
        /\ \A k, n \in 1..Len(report.lines) :
             (k < n /\ report.lines[n].category = "passing")
                => report.lines[k].category = "passing"

\* A report with a Failing package and a Passing one.
C23_Witness ==
    /\ exit = "ok"
    /\ report.counts["passing"] = 1
    /\ report.counts["failing"] = 1

\* C24: a run that printed its report ends with a failure indication exactly
\* when some package is Failing.
C24_ExitReflectsFailing ==
    exit = "ok" => (ExitCode # 0 <=> \E t \in Present : task[t].category = "failing")

\* The task's last Acquire was refused as overloaded and it has not tried
\* again yet.
Refused(t) ==
    /\ task[t].pc \in {"retry_wait", "retry_release", "sleep"}
    /\ outcome[t] = Overloaded

\* C25: a task that was refused as overloaded keeps retrying, and once the
\* worker has a free slot again a retry of the task is granted, unless the
\* slot was taken again meanwhile or the run was ended by an error.
C25_RefusedThenGranted ==
    \A t \in Tasks :
        (Refused(t) /\ ~WorkerFull)
           ~> (task[t].leases > 0 \/ WorkerFull \/ task[t].pc = "failed")

\* C26: a run with more packages than the advertised capacity, the capacity
\* being at least 1, goes on like any other: it does not break off.
C26_MorePackagesThanCapacity ==
    (poolSize >= 1 /\ Cardinality(Present) > poolSize) => exit # "panic"

\* C27: at any time the worker holds at most one lease that was granted to a
\* job and not released, and runs at most one sbuild for it.
C27_NoDoubleRun ==
    \A t \in Tasks : task[t].leases <= 1 /\ task[t].sbuilds <= 1

\* C28: with a capacity of at least 1 every job of the run is settled in the
\* end: classified, or given up with an error that ends the run.
C28_NoStarvation ==
    \A t \in Tasks :
        (task[t].pc = "init" /\ poolSize >= 1) ~> task[t].pc \in {"done", "failed"}

\* C29: every status update names a slot of the reporter, that is an index
\* below the advertised capacity, and leaves the run going.
C29_StatusWithinSlots ==
    [][\A t \in Tasks : TaskStart(t) => InRange(t) /\ exit' = "running"]_vars

\* The leases no open Acquire call stands for any more.
Abandoned ==
    {i \in builds : \A c \in Calls : pc[c] \in {"acq_send", "acq_wait"} => loc[c].id # i}

\* C30: an Acquire call that ends because its caller went away leaves its
\* lease in the table; a lease leaves the table only in a Release of its id;
\* and an Acquire that checks the capacity while the abandoned leases alone
\* fill the table is refused as overloaded.
C30_AbandonedLeaseStays ==
    [][\A c \in Calls :
         /\ (pc[c] \in {"acq_send", "acq_wait"} /\ Stepped(c) /\ ctxDone[c]
               /\ loc[c].id \notin chanClosed)
            => loc[c].id \in builds' /\ loc[c].id \in Abandoned'
         /\ \A i \in builds \ builds' :
               \E d \in Calls : pc[d] = "rel_body" /\ Stepped(d) /\ req[d].id = i
         /\ (pc[c] = "acq_check" /\ Stepped(c)
               /\ Cardinality(Abandoned) >= concurrentBuilds)
            => result'.op = "Acquire" /\ result'.err = "overloaded"]_vars

\* Every slot of a worker of the largest capacity is taken by an abandoned lease,
\* and an Acquire has just been refused.
C30_Witness ==
    /\ concurrentBuilds = MaxCapacity
    /\ Cardinality(Abandoned) = concurrentBuilds
    /\ result.op = "Acquire"
    /\ result.err = "overloaded"

\* C31: once a task has failed with an error that is not transient, the run
\* comes to its end.
C31_AbortTerminates ==
    (\E t \in Tasks : task[t].pc = "failed") ~> exit # "running"

\* The phases of one build attempt, in the order required of them.
PhaseOrder == <<"token", "acquire", "upload", "start", "wait", "download", "release">>

\* C32: the phases a job has completed in a build attempt are always the
\* first phases of: token, Acquire grant, uploads, StartBuild, Wait, download,
\* Release; Release is called only with the download done, a job is at its
\* classification only with all of them done, and the build is started only
\* with every extra package uploaded.
C32_PhasesInOrder ==
    \A t \in Tasks :
        /\ Len(task[t].trace) <= Len(PhaseOrder)
        /\ task[t].trace = SubSeq(PhaseOrder, 1, Len(task[t].trace))
        /\ task[t].pc \in {"return", "done"} => task[t].trace = PhaseOrder
        /\ task[t].pc = "release" => task[t].trace = SubSeq(PhaseOrder, 1, 6)
        /\ task[t].pc = "start" => task[t].uploads = task[t].extraDebs

\* A job went through all phases of an attempt, uploads included, and is
\* classified.
C32_Witness ==
    \E t \in Tasks :
        /\ task[t].pc = "done"
        /\ task[t].trace = PhaseOrder
        /\ task[t].uploads > 0

\* C33: a task whose lease is still outstanding on the worker holds its
\* token.
C33_TokenHeldWhileLeased ==
    \A t \in Tasks : task[t].leases > 0 => task[t].token

\* C34: a task leaves its retry wait only by taking the one tick the ticker
\* has waiting, which is then gone, and no other task moves in that step; the
\* ticker never has more than one tick waiting.
C34_OneResumePerTick ==
    [][/\ \A t \in Tasks :
            (task[t].pc = "retry_wait" /\ task'[t].pc # "retry_wait")
              => /\ retry = 1
                 /\ retry' = 0
                 /\ \A u \in Tasks \ {t} : task'[u] = task[u]
       /\ retry' <= 1]_vars

\* Two tasks failed transiently; one of them has taken the tick and the
\* other is still waiting for the next.
C34_Witness ==
    \E t, u \in Tasks :
        /\ task[t].pc = "retry_release"
        /\ task[u].pc = "retry_wait"
        /\ retry = 0

\* C35: a job becomes a recheck only when recheck is configured and its first
\* build has just returned a failure; from then on it stays a recheck, keeps
\* the result of its first build, has no extra packages and uploads none,
\* through every retry; and once the recheck has a result the job is done.
C35_RecheckOnceWithoutExtras ==
    [][\A t \in Tasks :
         /\ (~task[t].recheck /\ task'[t].recheck)
              => recheck /\ task[t].pc = "return" /\ task'[t].first = "err"
         /\ task[t].first # "" => task'[t].first = task[t].first
         /\ task'[t].recheck
              => /\ task'[t].first = "err"
                 /\ task'[t].extraDebs = 0
                 /\ task'[t].pc \in InBuild \cup {"retry_wait", "retry_release", "done"}
                      => task'[t].uploads = 0
         /\ task[t].recheck => task'[t].recheck
         /\ task'[t].second # "" => task'[t].recheck /\ task'[t].pc = "done"]_vars

\* The recheck of a job failed transiently after its upload step and is
\* waiting to be retried.
C35_Witness ==
    \E t \in Tasks :
        /\ task[t].recheck
        /\ task[t].pc = "retry_wait"
        /\ Len(task[t].trace) >= 3

\* C37: an Acquire that created a lease and then fails to send the grant
\* leaves no lease behind.
C37_UnsentGrantLeavesNoLease ==
    [][\A c \in Calls :
         (pc[c] = "acq_send" /\ Stepped(c) /\ result'.err = "send")
            => loc[c].id \notin builds']_vars

\* C39: an upload stream looks up a lease and examines a name only for its
\* first chunk, and records one name then; every chunk's data are appended to
\* the file the first chunk named, which lies in the directory of the first
\* chunk's lease, and nothing else is written.
C39_StreamWritesOneFile ==
    [][\A c \in Calls :
         /\ (pc[c] = "wf_recv" /\ pc'[c] = "wf_lock") => loc[c].f = NoFile
         /\ (pc[c] = "wf_record" /\ Stepped(c))
              => /\ loc[c].off = 0
                 /\ writtenFiles' = [writtenFiles EXCEPT
                                       ![req[c].id] = Append(@, req[c].filename)]
         /\ (pc[c] = "wf_write" /\ Stepped(c))
              => /\ loc[c].f = Join(BuildDirOf(req[c].id), req[c].filename)
                 /\ Inside(BuildDirOf(req[c].id), req[c].filename)
                 /\ files' = [files EXCEPT ![loc[c].f] = @ \o req[c].data]
                 /\ writtenFiles' = writtenFiles]_vars

\* The positions of the handlers inside a critical section of s.mu.
LockedPcs ==
    {"acq_check", "acq_create", "rel_body", "wf_dir", "wf_record", "st_dir",
     "st_record", "wt_lookup", "tar_dir", "tar_args"}

C38_RelayEndsWithBackend ==
    [][\A c \in Calls :
         /\ Len(relayed'[c]) <= 1
         /\ (lbPc[c] = "recv" /\ lbPc'[c] = "idle")
               => lbLoc[c].in.kind \in {"eof", "err"}
         /\ (lbPc[c] = "recv" /\ lbLoc[c].in.kind \in {"eof", "err"}
               /\ <<lbPc[c], lbLoc[c], relayed[c]>>' # <<lbPc[c], lbLoc[c], relayed[c]>>)
               => /\ lbPc'[c] = "idle"
                  /\ lbResult'.call = c
                  /\ lbResult'.err = (IF lbLoc[c].in.kind = "eof" THEN "ok"
                                      ELSE lbLoc[c].in.err)
         /\ (lbResult'.call = c /\ lbResult'.op = "Acquire" /\ lbResult'.err = "ok")
               => /\ Len(relayed[c]) = 1
                  /\ relayed[c][1].id = lbLoc[c].id
         /\ (lbPc[c] = "recv" /\ relayed[c] # <<>>
               /\ lbLoc[c].id \in leases[lbLoc[c].backend]
               /\ lbLoc[c].id \notin leases'[lbLoc[c].backend])
               => lbLoc'[c].in.kind = "eof"
         /\ (lbPc[c] = "recv" /\ lbLoc[c].in.err # "canceled"
               /\ lbLoc'[c].in.err = "canceled")
               => /\ lbLoc'[c].in.kind = "err"
                  /\ relayed'[c] = relayed[c]]_vars

\* The balancer has just ended a relayed Acquire normally: the lease it
\* relayed from a backend other than the first was released there.
C38_Witness ==
    /\ lbResult.op = "Acquire"
    /\ lbResult.err = "ok"
    /\ \E b \in Backends \ {Listener(HostPort)} : b = forwarded[Len(forwarded)]
    /\ \A b \in Backends : leases[b] = {}

====
